---- MODULE Spec2Model ----
(***************************************************************************)
(* Webhook subscription relay: the Registry (subscription_service/main.py) *)
(* and the Listener (event_listener/event_listener.py).                    *)
(*                                                                         *)
(* Python's Optional values are sequences of length at most one: None is   *)
(* <<>> and a present value x is <<x>>.  A field of a PATCH body is Unset  *)
(* when the request does not carry it, and Some(v) when it does, where v   *)
(* is itself an Optional (an explicit null is Some(None)).                 *)
(***************************************************************************)
EXTENDS Integers, Sequences, FiniteSets, Bags, TLC

None == <<>>
Some(x) == <<x>>
Unset == <<>>

Min(a, b) == IF a < b THEN a ELSE b
Max(a, b) == IF a > b THEN a ELSE b

(***************************************************************************)
(* Bounds of the model.                                                    *)
(***************************************************************************)
MaxLog == 11       \* external notifications the Listener takes in
MaxClock == 2      \* subscriptions created in one run; the clock ticks at each
MaxDeliverSubs == 1 \* subscriptions created in a run of SpecDeliver
MaxPosts == 2      \* deliveries started in one run
MaxInflight == 2   \* deliver requests between their read and their POST
Limits == {0 - 13, 0 - 2, 0 - 1, 0, 1, 2, 3, 13}

VARIABLES
    subs,                    \* Registry: the subscriptions table, id -> row
    inflight,                \* Registry: deliver requests that have read their row
    last,                    \* Registry: the response to the latest answered request
    posts,                   \* outbound POSTs the Registry has issued
    used,                    \* history: every id create has assigned
    req,                     \* history: the request handled in this step
    received_notifications,  \* Listener: the in-memory log
    l_last,                  \* Listener: the response to the latest request
    ingested,                \* history: notifications accepted since the last clear
    clock                    \* datetime.utcnow(), one tick per subscription created

rvars == <<subs, inflight, last, posts, used, req>>
lvars == <<received_notifications, l_last, ingested>>
vars == <<subs, inflight, last, posts, used, req,
          received_notifications, l_last, ingested, clock>>

(***************************************************************************)
(* Listener: event_listener.py                                             *)
(***************************************************************************)

\* The JSON bodies external senders post to /receive: every field may be
\* null; two of them have the shape of Notification.
ExternalBodies ==
    { [status |-> s, subscription_id |-> i, event_type |-> e, timestamp |-> Some(0)] :
        s \in {Some("success"), None}, i \in {Some(1), Some(2)},
        e \in {Some("test"), None} }

\* class Notification(BaseModel): four required, non-null fields.
NotificationValid(body) ==
    /\ body.status # None
    /\ body.subscription_id # None
    /\ body.event_type # None
    /\ body.timestamp # None

\* notification.dict(): the parsed fields.
NotificationDict(body) ==
    [status |-> body.status[1], subscription_id |-> body.subscription_id[1],
     event_type |-> body.event_type[1], timestamp |-> body.timestamp[1]]

\* A log that puts the newest record first.
PrependNotification(log, now, body) ==
    <<[received_at |-> now, notification |-> NotificationDict(body)]>> \o log

\* received_notifications.append({...})
AppendNotification(log, now, body) ==
    Append(log, [received_at |-> now, notification |-> NotificationDict(body)])

\* POST /receive. A body that is no Notification is rejected by the framework
\* with 422 before the handler runs.
receive_notification(body) ==
    /\ Len(received_notifications) < MaxLog
    /\ IF NotificationValid(body)
       THEN /\ received_notifications' =
                   AppendNotification(received_notifications, clock, body)
            /\ ingested' = Append(ingested, NotificationDict(body))
            /\ l_last' = [op |-> "receive", query |-> None, status |-> 200, body |-> <<>>]
       ELSE /\ l_last' = [op |-> "receive", query |-> None, status |-> 422, body |-> <<>>]
            /\ UNCHANGED <<received_notifications, ingested>>

\* Python's s[start:] for a list s.
PySliceFrom(s, start) ==
    LET n == Len(s)
        k == IF start < 0 THEN Max(n + start, 0) ELSE Min(start, n)
    IN  SubSeq(s, k + 1, n)

\* def get_notifications(limit: int = 10)
DefaultLimit == 10

\* A list that returns the oldest records, log[:limit].
FirstNotifications(log, limit) == SubSeq(log, 1, Min(Max(limit, 0), Len(log)))

\* A list that returns nothing for a limit of zero or less.
NothingForNonPositive(log, limit) ==
    IF limit <= 0 THEN <<>> ELSE PySliceFrom(log, 0 - limit)

\* received_notifications[-limit:]
LastNotifications(log, limit) == PySliceFrom(log, 0 - limit)

\* GET /notifications?limit=N; the query parameter is optional.
get_notifications(limitParam) ==
    LET limit == IF limitParam = None THEN DefaultLimit ELSE limitParam[1]
    IN  /\ l_last' = [op |-> "list", query |-> limitParam, status |-> 200,
                      body |-> LastNotifications(received_notifications, limit)]
        /\ UNCHANGED <<received_notifications, ingested>>

\* received_notifications.clear()
ClearedLog(log) == <<>>

\* DELETE /notifications
clear_notifications ==
    /\ received_notifications' = ClearedLog(received_notifications)
    /\ ingested' = <<>>
    /\ l_last' = [op |-> "clear", query |-> None, status |-> 204, body |-> <<>>]

(***************************************************************************)
(* Registry: subscription_service/main.py                                  *)
(***************************************************************************)

VALID_TOKEN == "secret-token"

\* The Listener's ingestion endpoint, and a callback that is not the Listener.
LISTENER_URL == "http://localhost:8001/receive"
OTHER_URL == "http://example.org/hook"

\* The credentials a request may carry.  http_bearer (auto_error = False)
\* yields None without a usable Authorization header, and otherwise the
\* scheme as the client spelled it ("Bearer", "bearer", ...) with a non-empty
\* token; a header or a query parameter may be absent, empty or a string.
Credentials ==
    [credentials : {None} \cup
         {Some([scheme |-> sc, credentials |-> t]) :
              sc \in {"Bearer", "bearer"}, t \in {VALID_TOKEN, "wrong"}},
     x_access_token : {None, Some(""), Some(VALID_TOKEN), Some("wrong")},
     plain_token : {None, Some(""), Some(VALID_TOKEN), Some("wrong")}]

\* Python's truth value of an Optional[str].
Truthy(s) == s # None /\ s[1] # ""

\* async def authenticate(credentials, x_access_token, plain_token):
\* the token, or None where the code raises 401.
authenticate(c) ==
    LET token == IF c.credentials # None /\ c.credentials[1].scheme = "Bearer"
                 THEN Some(c.credentials[1].credentials)
                 ELSE IF Truthy(c.x_access_token) THEN c.x_access_token
                 ELSE IF Truthy(c.plain_token) THEN c.plain_token
                 ELSE None
    IN  IF ~Truthy(token) \/ token[1] # VALID_TOKEN THEN None ELSE token

\* What Depends(authenticate) can hand to a handler, over all credentials.
AuthOutcomes == {authenticate(c) : c \in Credentials}

\* The answer to a request: the HTTP status and the detail of an error.
Response(status, detail) == [status |-> status, detail |-> detail]

\* A request as it reaches its handler: the operation, the id in its path (0
\* without one), what Depends(authenticate) returned, and, where a
\* specification records them, its credentials and its body.
Request(op, sub_id, token, credentials, body) ==
    [op |-> op, sub_id |-> sub_id, token |-> token,
     credentials |-> credentials, body |-> body]

\* HTTPException(401) raised by the dependency: the handler does not run.
Unauthorized ==
    /\ last' = Response(401, "Invalid or missing credentials")
    /\ UNCHANGED <<subs, inflight, posts, used, clock>>

\* SubscriptionResponse: is_active: bool does not admit None.
Serialisable(row) == row.is_active # None

\* GET /subscriptions/ : db.query(Subscription).all(), serialised.
list_subscriptions(token) ==
    IF token = None THEN Unauthorized
    ELSE /\ last' = Response(
                 IF \A i \in DOMAIN subs : Serialisable(subs[i]) THEN 200 ELSE 500, "")
         /\ UNCHANGED <<subs, inflight, posts, used, clock>>

\* id = Column(Integer, primary_key=True) on SQLite: an INTEGER PRIMARY KEY
\* without AUTOINCREMENT; an insert without an id takes the largest id in the
\* table plus one, and 1 in an empty table.
NextRowId(table) ==
    IF DOMAIN table = {} THEN 1
    ELSE (CHOOSE m \in DOMAIN table : \A i \in DOMAIN table : i <= m) + 1

\* Subscription(**subscription.dict()) with the column defaults.
NewRow(body, now) ==
    [notification_url |-> body.notification_url[1],
     event_type |-> body.event_type,
     created_at |-> now,
     is_active |-> Some(TRUE)]

Insert(table, id, row) ==
    [i \in DOMAIN table \cup {id} |-> IF i = id THEN row ELSE table[i]]

\* The bodies of POST /subscriptions/ : notification_url is required.
CreateBodies ==
    [notification_url : {None, Some(LISTENER_URL), Some(OTHER_URL)},
     event_type : {None, Some("test")}]

\* POST /subscriptions/
create_subscription(token, body) ==
    IF token = None THEN Unauthorized
    ELSE IF body.notification_url = None
    THEN /\ last' = Response(422, "")
         /\ UNCHANGED <<subs, inflight, posts, used, clock>>
    ELSE LET id == NextRowId(subs) IN
         /\ clock < MaxClock
         /\ subs' = Insert(subs, id, NewRow(body, clock))
         /\ used' = used \cup {id}
         /\ clock' = clock + 1
         /\ last' = Response(201, "")
         /\ UNCHANGED <<inflight, posts>>

\* The bodies of PATCH /subscriptions/{id}: any subset of the three fields,
\* notification_url and event_type as a value or an explicit null.
UpdateBodies ==
    [notification_url : {Unset, Some(None), Some(Some(OTHER_URL))},
     event_type : {Unset, Some(None), Some(Some("test"))},
     is_active : {Unset, Some(Some(TRUE)), Some(Some(FALSE))}]

\* An update that replaces the row: a field the body lacks becomes null.
FullReplace(row, upd) ==
    [notification_url |->
         IF upd.notification_url = Unset THEN Some(row.notification_url)
         ELSE upd.notification_url[1],
     event_type |-> IF upd.event_type = Unset THEN None ELSE upd.event_type[1],
     created_at |-> row.created_at,
     is_active |-> IF upd.is_active = Unset THEN None ELSE upd.is_active[1]]

\* for key, value in subscription.dict(exclude_unset=True).items():
\*     setattr(db_sub, key, value)
\* The result keeps notification_url as an Optional: the column decides at
\* the commit whether it can be stored.
SetAttrs(row, upd) ==
    [notification_url |->
         IF upd.notification_url = Unset THEN Some(row.notification_url)
         ELSE upd.notification_url[1],
     event_type |-> IF upd.event_type = Unset THEN row.event_type ELSE upd.event_type[1],
     created_at |-> row.created_at,
     is_active |-> IF upd.is_active = Unset THEN row.is_active ELSE upd.is_active[1]]

\* notification_url = Column(String, nullable=False)
Storable(r) == r.notification_url # None

Stored(r) == [r EXCEPT !.notification_url = r.notification_url[1]]

\* PATCH /subscriptions/{sub_id}.  A commit that breaks NOT NULL raises
\* IntegrityError, which no handler catches: 500, and the session is closed
\* without a change.  A row with is_active NULL is stored, and fails the
\* response model afterwards.
update_subscription(token, sub_id, upd) ==
    IF token = None THEN Unauthorized
    ELSE IF sub_id \notin DOMAIN subs
    THEN /\ last' = Response(404, "Subscription not found")
         /\ UNCHANGED <<subs, inflight, posts, used, clock>>
    ELSE LET r == SetAttrs(subs[sub_id], upd) IN
         IF ~Storable(r)
         THEN /\ last' = Response(500, "IntegrityError")
              /\ UNCHANGED <<subs, inflight, posts, used, clock>>
         ELSE /\ subs' = [subs EXCEPT ![sub_id] = Stored(r)]
              /\ last' = Response(IF Serialisable(Stored(r)) THEN 200 ELSE 500, "")
              /\ UNCHANGED <<inflight, posts, used, clock>>

\* A delete without its filter on the id.
Truncate(table, id) == <<>>

\* db.delete(db_sub)
Remove(table, id) == [i \in DOMAIN table \ {id} |-> table[i]]

\* DELETE /subscriptions/{sub_id}
delete_subscription(token, sub_id) ==
    IF token = None THEN Unauthorized
    ELSE IF sub_id \notin DOMAIN subs
    THEN /\ last' = Response(404, "Subscription not found")
         /\ UNCHANGED <<subs, inflight, posts, used, clock>>
    ELSE /\ subs' = Remove(subs, sub_id)
         /\ last' = Response(204, "")
         /\ UNCHANGED <<inflight, posts, used, clock>>

\* A deliver that does not look at is_active.
IgnoresActiveFlag(row) == TRUE

\* if not subscription.is_active: False and NULL alike.
Deliverable(row) == row.is_active = Some(TRUE)

\* A deliver that leaves the event_type of the row out of its payload.
ReadWithoutEventType(table, sub_id) ==
    [sub_id |-> sub_id,
     notification_url |-> table[sub_id].notification_url,
     event_type |-> None]

\* What the handler holds of the row it has read when it calls requests.post:
\* sub_id, subscription.notification_url and subscription.event_type.
ReadForDelivery(table, sub_id) ==
    [sub_id |-> sub_id,
     notification_url |-> table[sub_id].notification_url,
     event_type |-> table[sub_id].event_type]

\* POST /subscriptions/{sub_id}/notify, up to the outbound call: the row is
\* read once, and requests.post blocks the handler (a threadpool function)
\* while other requests are served.
notify_subscription(token, sub_id) ==
    IF token = None THEN Unauthorized
    ELSE IF sub_id \notin DOMAIN subs
    THEN /\ last' = Response(404, "Subscription not found")
         /\ UNCHANGED <<subs, inflight, posts, used, clock>>
    ELSE IF ~Deliverable(subs[sub_id])
    THEN /\ last' = Response(400, "Inactive subscription")
         /\ UNCHANGED <<subs, inflight, posts, used, clock>>
    ELSE /\ BagCardinality(inflight) < MaxInflight
         /\ posts + BagCardinality(inflight) < MaxPosts
         /\ inflight' = inflight (+) SetToBag({ReadForDelivery(subs, sub_id)})
         /\ UNCHANGED <<subs, last, posts, used, clock>>

\* json={"status": "success", "subscription_id": sub_id,
\*       "event_type": subscription.event_type, "timestamp": utcnow}
NotificationBody(call, now) ==
    [status |-> Some("success"), subscription_id |-> Some(call.sub_id),
     event_type |-> call.event_type, timestamp |-> Some(now)]

\* What the network and a callback that is not the Listener can answer.
Transport == {"ok", "ConnectionError", "HTTPError"}

\* requests.post(...), response.raise_for_status() and the answer of notify.
\* The Listener answers 200 or 422 when the POST reaches it.
notify_post(call, transport) ==
    /\ BagIn(call, inflight)
    /\ inflight' = inflight (-) SetToBag({call})
    /\ posts' = posts + 1
    /\ UNCHANGED <<subs, used, clock>>
    /\ IF call.notification_url = LISTENER_URL /\ transport = "ok"
       THEN /\ receive_notification(NotificationBody(call, clock))
            /\ last' = IF l_last'.status = 200
                       THEN Response(200, "Notification sent successfully")
                       ELSE Response(500, "422 Client Error")
       ELSE /\ UNCHANGED lvars
            /\ last' = IF transport = "ok"
                       THEN Response(200, "Notification sent successfully")
                       ELSE Response(500, transport)

Init ==
    /\ subs = <<>>
    /\ inflight = EmptyBag
    /\ last = Response(0, "")
    /\ posts = 0
    /\ used = {}
    /\ req = Request("none", 0, None, None, None)
    /\ received_notifications = <<>>
    /\ l_last = [op |-> "none", query |-> None, status |-> 0, body |-> <<>>]
    /\ ingested = <<>>
    /\ clock = 0

Receive == \E body \in ExternalBodies : receive_notification(body) /\ UNCHANGED <<rvars, clock>>
GetNotifications ==
    \E limitParam \in {None} \cup {Some(l) : l \in Limits} :
        get_notifications(limitParam) /\ UNCHANGED <<rvars, clock>>
ClearNotifications == clear_notifications /\ UNCHANGED <<rvars, clock>>

RequestIds == 1..MaxClock

\* The body of a request that is answered 401 is never read.
BodiesFor(token, bodies) == IF token = None THEN {CHOOSE b \in bodies : TRUE} ELSE bodies

\* SpecCRUD: every handler of the table over the whole of its input space,
\* under credentials that authenticate and credentials that do not.
ListSubscriptions ==
    \E token \in AuthOutcomes :
        /\ list_subscriptions(token)
        /\ req' = Request("list", 0, token, None, None)
        /\ UNCHANGED lvars
CreateSubscription ==
    \E token \in AuthOutcomes : \E body \in BodiesFor(token, CreateBodies) :
        /\ create_subscription(token, body)
        /\ req' = Request("create", 0, token, None, None)
        /\ UNCHANGED lvars
UpdateSubscription ==
    \E token \in AuthOutcomes, sub_id \in RequestIds :
      \E upd \in BodiesFor(token, UpdateBodies) :
        /\ update_subscription(token, sub_id, upd)
        /\ req' = Request("update", sub_id, token, None, Some(upd))
        /\ UNCHANGED lvars
DeleteSubscription ==
    \E token \in AuthOutcomes, sub_id \in RequestIds :
        /\ delete_subscription(token, sub_id)
        /\ req' = Request("delete", sub_id, token, None, None)
        /\ UNCHANGED lvars

NextCRUD ==
    \/ ListSubscriptions
    \/ CreateSubscription
    \/ UpdateSubscription
    \/ DeleteSubscription
SpecCRUD == Init /\ [][NextCRUD]_vars

\* SpecDeliver: subscriptions with a callback, switched on and off (or to
\* null) and deleted while deliver requests are between their read and their POST.
DeliveryBodies ==
    [notification_url : {Some(LISTENER_URL), Some(OTHER_URL)},
     event_type : {None, Some("test")}]
SwitchBodies ==
    [notification_url : {Unset}, event_type : {Unset},
     is_active : {Some(None), Some(Some(TRUE)), Some(Some(FALSE))}]
DeliverIds == 1..MaxDeliverSubs

CreateForDelivery ==
    \E token \in AuthOutcomes : \E body \in BodiesFor(token, DeliveryBodies) :
        /\ clock < MaxDeliverSubs
        /\ create_subscription(token, body)
        /\ req' = Request("create", 0, token, None, None)
        /\ UNCHANGED lvars
SwitchSubscription ==
    \E token \in AuthOutcomes, sub_id \in DeliverIds :
      \E upd \in BodiesFor(token, SwitchBodies) :
        /\ update_subscription(token, sub_id, upd)
        /\ req' = Request("update", sub_id, token, None, Some(upd))
        /\ UNCHANGED lvars
DeleteDelivered ==
    \E token \in AuthOutcomes, sub_id \in DeliverIds :
        /\ delete_subscription(token, sub_id)
        /\ req' = Request("delete", sub_id, token, None, None)
        /\ UNCHANGED lvars
NotifySubscription ==
    \E token \in AuthOutcomes, sub_id \in DeliverIds :
        /\ notify_subscription(token, sub_id)
        /\ req' = Request("notify", sub_id, token, None, None)
        /\ UNCHANGED lvars
NotifyPost ==
    \E call \in BagToSet(inflight), transport \in Transport :
        /\ notify_post(call, transport)
        /\ req' = Request("post", call.sub_id, None, None, Some(call))

NextDeliver ==
    \/ CreateForDelivery
    \/ SwitchSubscription
    \/ DeleteDelivered
    \/ NotifySubscription
    \/ NotifyPost
SpecDeliver == Init /\ [][NextDeliver]_vars

\* SpecAuth: every handler under every combination of credentials, with one
\* request body each.
AuthBody == [notification_url |-> Some(LISTENER_URL), event_type |-> Some("test")]
AuthSwitch ==
    [notification_url |-> Unset, event_type |-> Unset, is_active |-> Some(Some(FALSE))]

ListWith ==
    \E c \in Credentials :
        /\ list_subscriptions(authenticate(c))
        /\ req' = Request("list", 0, authenticate(c), Some(c), None)
        /\ UNCHANGED lvars
CreateWith ==
    \E c \in Credentials :
        /\ clock < MaxDeliverSubs
        /\ create_subscription(authenticate(c), AuthBody)
        /\ req' = Request("create", 0, authenticate(c), Some(c), None)
        /\ UNCHANGED lvars
UpdateWith ==
    \E c \in Credentials, sub_id \in DeliverIds :
        /\ update_subscription(authenticate(c), sub_id, AuthSwitch)
        /\ req' = Request("update", sub_id, authenticate(c), Some(c), None)
        /\ UNCHANGED lvars
DeleteWith ==
    \E c \in Credentials, sub_id \in DeliverIds :
        /\ delete_subscription(authenticate(c), sub_id)
        /\ req' = Request("delete", sub_id, authenticate(c), Some(c), None)
        /\ UNCHANGED lvars
NotifyWith ==
    \E c \in Credentials, sub_id \in DeliverIds :
        /\ notify_subscription(authenticate(c), sub_id)
        /\ req' = Request("notify", sub_id, authenticate(c), Some(c), None)
        /\ UNCHANGED lvars
PostAfterAuth ==
    \E call \in BagToSet(inflight), transport \in Transport :
        /\ notify_post(call, transport)
        /\ req' = Request("post", call.sub_id, None, None, None)

NextAuth ==
    \/ ListWith
    \/ CreateWith
    \/ UpdateWith
    \/ DeleteWith
    \/ NotifyWith
    \/ PostAfterAuth
SpecAuth == Init /\ [][NextAuth]_vars

\* The Listener alone, driven by external senders.
NextL == Receive \/ GetNotifications \/ ClearNotifications
SpecL == Init /\ [][NextL]_vars

(***************************************************************************)
(* Listener claims                                                         *)
(***************************************************************************)

\* The limit a list request asked for: the query parameter, or the default.
AskedLimit == IF l_last.query = None THEN 10 ELSE l_last.query[1]

\* C6: the log is exactly the notifications accepted since the most recent
\* clear, in arrival order; a list leaves the log alone; a step leaves the log
\* as it is, empties it, or adds one record at its end; after a clear the log
\* is empty and a list that follows at once returns the empty sequence.
C6_LogIsIngestedSinceClear ==
    /\ [](/\ Len(received_notifications) = Len(ingested)
          /\ \A i \in 1..Len(ingested) :
                received_notifications[i].notification = ingested[i]
          /\ l_last.op = "clear" => received_notifications = <<>>)
    /\ [][/\ l_last'.op = "list" => received_notifications' = received_notifications
          /\ \/ received_notifications' = received_notifications
             \/ received_notifications' = <<>>
             \/ /\ Len(received_notifications') = Len(received_notifications) + 1
                /\ SubSeq(received_notifications', 1, Len(received_notifications))
                      = received_notifications
          /\ (l_last.op = "clear" /\ l_last'.op = "list") => l_last'.body = <<>>
         ]_vars

C6_Witness ==
    /\ l_last.op = "list"
    /\ Len(received_notifications) = 3
    /\ l_last.body = received_notifications
    /\ received_notifications[1].notification.subscription_id = 2
    /\ received_notifications[2].notification.subscription_id = 1

\* C7: a list with limit >= 1 (10 when the parameter is absent) returns the
\* last min(limit, n) records of the log, oldest first, with status 200.
C7_ListReturnsSuffix ==
    (l_last.op = "list" /\ AskedLimit >= 1) =>
        LET n == Len(received_notifications)
            m == Min(AskedLimit, n)
        IN  /\ l_last.status = 200
            /\ Len(l_last.body) = m
            /\ \A i \in 1..m : l_last.body[i] = received_notifications[n - m + i]

C7_Witness ==
    /\ l_last.op = "list"
    /\ l_last.query = None
    /\ Len(received_notifications) = 11
    /\ Len(l_last.body) = 10
    /\ l_last.body[1] = received_notifications[2]

C1_FirstCredentialDecides ==
    [][(req'.credentials # None /\
        LET c == req'.credentials[1]
            first == IF c.credentials # None THEN c.credentials[1].credentials
                     ELSE IF c.x_access_token \notin {None, Some("")}
                          THEN c.x_access_token[1]
                     ELSE IF c.plain_token \notin {None, Some("")}
                          THEN c.plain_token[1]
                     ELSE ""
        IN  first # "secret-token")
       => /\ last'.status = 401
          /\ subs' = subs
          /\ inflight' = inflight
          /\ posts' = posts
      ]_vars

\* C2: the id a successful create assigns was never assigned before.
C2_IdsNeverReused ==
    [][(req'.op = "create" /\ last'.status = 201)
       => \A i \in DOMAIN subs' \ DOMAIN subs : i \notin used
      ]_vars

C4_NoDeliveryWhenInactiveOrMissing ==
    [][(/\ req'.op = "notify" /\ req'.token # None
        /\ \/ req'.sub_id \notin DOMAIN subs
           \/ subs[req'.sub_id].is_active # Some(TRUE))
       => /\ last'.status = IF req'.sub_id \notin DOMAIN subs THEN 404 ELSE 400
          /\ posts' = posts
          /\ inflight' = inflight
          /\ subs' = subs
      ]_vars

C4_Witness ==
    /\ req.op = "notify" /\ req.token # None /\ last.status = 400
    /\ req.sub_id \in DOMAIN subs
    /\ subs[req.sub_id].is_active = Some(FALSE)
    /\ posts = 0
    /\ inflight = EmptyBag

\* C5: an authenticated delete of an id in the table is answered 204, removes
\* that row and leaves every other row as it was; a delete of an id that is
\* not in the table is answered 404 and changes nothing, and so is the delete
\* that repeats a successful delete at once.
C5_DeleteRemovesOneRow ==
    [][(req'.op = "delete" /\ req'.token # None) =>
        LET i == req'.sub_id
        IN  /\ IF i \in DOMAIN subs
               THEN /\ last'.status = 204
                    /\ DOMAIN subs' = DOMAIN subs \ {i}
                    /\ \A j \in DOMAIN subs' : subs'[j] = subs[j]
               ELSE last'.status = 404 /\ subs' = subs
            /\ (req.op = "delete" /\ req.sub_id = i /\ last.status = 204)
                   => (last'.status = 404 /\ subs' = subs)
      ]_vars

C5_Witness ==
    /\ req.op = "delete" /\ req.token # None /\ last.status = 404
    /\ req.sub_id \in used
    /\ req.sub_id \notin DOMAIN subs
    /\ DOMAIN subs # {}

\* C8: a POST of deliver that reaches the Listener for a subscription still in
\* the table, active and as it was read, is answered 200 by deliver and adds
\* one record with the id and the event_type of the subscription to the log;
\* deliver to the Listener answers 200 only if a record was added.
C8_DeliveryReachesListener ==
    [][(req'.op = "post" /\ req'.body # None
        /\ req'.body[1].notification_url = "http://localhost:8001/receive") =>
        LET call == req'.body[1]
            i == call.sub_id
            n == Len(received_notifications)
        IN  /\ (/\ last'.detail \notin {"ConnectionError", "HTTPError"}
                /\ i \in DOMAIN subs
                /\ subs[i].is_active = Some(TRUE)
                /\ subs[i].notification_url = call.notification_url
                /\ subs[i].event_type = call.event_type)
               => /\ posts' = posts + 1
                  /\ last'.status = 200
                  /\ Len(received_notifications') = n + 1
                  /\ SubSeq(received_notifications', 1, n) = received_notifications
                  /\ received_notifications'[n + 1].notification.subscription_id = i
                  /\ Some(received_notifications'[n + 1].notification.event_type)
                        = subs[i].event_type
            /\ last'.status = 200 => Len(received_notifications') = n + 1
      ]_vars

\* C9 as stated: deliver is one atomic step; a POST is issued only for a
\* subscription that is in the table and active when the POST is issued.
C9_DeliverIsAtomic ==
    [][(req'.op = "post") =>
        /\ req'.sub_id \in DOMAIN subs
        /\ subs[req'.sub_id].is_active = Some(TRUE)
      ]_vars

\* C9 amended: a deliver request is admitted only for a subscription that is
\* in the table and active when the request reads it, with the url and the
\* event_type read then; every POST is the POST of one admitted request, which
\* it ends; no other request admits or ends a deliver request.
C9_PostOnlyForAdmittedDeliver ==
    [][/\ (req'.op = "notify" /\ inflight' # inflight) =>
            /\ req'.token # None
            /\ req'.sub_id \in DOMAIN subs
            /\ subs[req'.sub_id].is_active = Some(TRUE)
            /\ inflight' = inflight (+) SetToBag({[
                    sub_id |-> req'.sub_id,
                    notification_url |-> subs[req'.sub_id].notification_url,
                    event_type |-> subs[req'.sub_id].event_type]})
            /\ posts' = posts
       /\ (req'.op = "post") =>
            /\ BagIn(req'.body[1], inflight)
            /\ inflight' = inflight (-) SetToBag({req'.body[1]})
            /\ posts' = posts + 1
       /\ (req'.op \notin {"notify", "post"}) =>
            (inflight' = inflight /\ posts' = posts)
      ]_vars

\* A POST was issued for a subscription deleted after the deliver request
\* had read it.
C9_Witness ==
    /\ req.op = "post"
    /\ posts >= 1
    /\ last.status = 200
    /\ req.sub_id \in used
    /\ req.sub_id \notin DOMAIN subs
====
